---- MODULE Spec2Model ----
(***************************************************************************)
(* Model of the Consul Connect router (package router) of flagger:         *)
(* Reconcile / GetRoutes / SetRoutes over the Consul config-entry store.   *)
(*                                                                         *)
(* Weights are Go float32 values.  They are represented in fixed point,    *)
(* as integers counting 1/Scale units, so that the comparison with the     *)
(* literal 0.001 and the truncating conversion int(split.Weight) are       *)
(* computed, not assumed.                                                  *)
(***************************************************************************)
EXTENDS Integers, Sequences, FiniteSets, TLC

VARIABLES
  entries,   \* the Consul config-entry store: <<kind, name>> -> entry or NoEntry
  last,      \* the last call that returned: operation, arguments, backend outcomes, result
  inflight,  \* the Reconcile that has not returned yet: its position and what its
             \* backend calls have answered; the SetRoutes of a second caller
  healthy    \* whether the backend has stopped failing

vars == <<entries, last, inflight, healthy>>

----------------------------------------------------------------------------
(* Bounds *)

\* SetRoutes is given the weight 0 and the MaxSteps equal steps up to 100
MaxSteps == 1
\* discovery returns at most MaxDcs datacenters
MaxDcs == 3
\* instance identifiers have at most MaxIdLen characters
MaxIdLen == 4

----------------------------------------------------------------------------
(* Values *)

\* the Go nil error
Nil == [msg |-> "nil"]
\* no config entry stored under a kind and name
NoEntry == [Kind |-> "absent"]

\* fixed-point resolution of a float32 weight: 1.0 = Scale units
Scale == 1000
\* the literal 0.001 of updateSplitter, in 1/Scale units
Epsilon == 1

ServiceResolver == "service-resolver"
ServiceSplitter == "service-splitter"
Kinds == {ServiceResolver, ServiceSplitter}

\* float32(w) of an int w
ToFloat32(w) == w * Scale
\* int(f) of a float32 f: truncation toward zero
ToInt(f) == IF f >= 0 THEN f \div Scale ELSE -((-f) \div Scale)

\* the rollout targets: the result of canary.GetServiceNames() and canary.Namespace
Targets ==
  { [apexName |-> "app", primaryName |-> "app-primary", canaryName |-> "app-canary",
     Namespace |-> "test"] }

ApexNames == { t.apexName : t \in Targets }

\* the integer weights given to SetRoutes
Weights == {0} \cup { (100 * k) \div MaxSteps : k \in 1..MaxSteps }

\* the datacenter names and the lists the catalog can return, in discovery
\* order: the first n of the datacenters 1..MaxDcs, for n in 0..MaxDcs
DcLists == { [k \in 1..n |-> k] : n \in 0..MaxDcs }

\* outcomes of Catalog().Datacenters(): an error, or a list
Discoveries ==
  { [failed |-> TRUE, dcs |-> <<>>] } \cup { [failed |-> FALSE, dcs |-> l] : l \in DcLists }

\* outcomes of ConfigEntries().Set: (true, nil), (false, nil), (_, err)
SetOutcomes == {"written", "notwritten", "error"}

\* outcomes of ConfigEntries().Get: an absent entry is an error (404); a stored
\* entry is returned, or the call fails, or the value is not a splitter entry
GetOutcomes(entry) == IF entry = NoEntry THEN {"error"} ELSE {"found", "error", "badtype"}

\* a backend call that is not made has no outcome
NotCalled == "notcalled"

\* a stored resolver with failover entries
HasFailover(entry) == entry # NoEntry /\ DOMAIN entry.Failover # {}

----------------------------------------------------------------------------
(* The Consul client *)

ConfigEntriesSet(entry, outcome, store) ==
  [ result |-> outcome = "written",
    failed |-> outcome = "error",
    store  |-> IF outcome = "written"
               THEN [store EXCEPT ![<<entry.Kind, entry.Name>>] = entry]
               ELSE store,
    call   |-> [api |-> "ConfigEntries.Set", kind |-> entry.Kind, outcome |-> outcome] ]

ConfigEntriesGet(kind, name, outcome, store) ==
  [ entry  |-> IF outcome = "found" THEN store[<<kind, name>>] ELSE NoEntry,
    failed |-> outcome = "error",
    ok     |-> outcome = "found",
    call   |-> [api |-> "ConfigEntries.Get", kind |-> kind, outcome |-> outcome] ]

CatalogDatacenters(outcome) ==
  [ dcs    |-> outcome.dcs,
    failed |-> outcome.failed,
    call   |-> [api |-> "Catalog.Datacenters", kind |-> "",
                outcome |-> IF outcome.failed THEN "error" ELSE "found"] ]

----------------------------------------------------------------------------
(* Errors: one constructor per fmt.Errorf of the router *)

Errorf(msg, canary, wrapped) ==
  [msg |-> msg, apexName |-> canary.apexName, namespace |-> canary.Namespace, wraps |-> wrapped]

ErrSetSplitter(canary)      == Errorf("Not able to set service splitter", canary, TRUE)
ErrResolverFailure(canary)  == Errorf("Failure during creation of service resolver", canary, TRUE)
ErrResolverNotCreated(canary) == Errorf("Not able to create service resolver", canary, FALSE)
ErrSplitterNotFound(canary) == Errorf("Service splitter not found", canary, TRUE)
ErrBadSplitter(canary)      == Errorf("Bad service splitter", canary, FALSE)
ErrNoRoutes(canary)         == Errorf("Service splitter does not contain routes", canary, FALSE)

----------------------------------------------------------------------------
(* The router *)

ServiceSplit(weight, service, subset) ==
  [Weight |-> weight, Service |-> service, ServiceSubset |-> subset]

\* updateSplitter that issues the write a second time when it failed
updateSplitter_RetryOnError(canary, primaryWeight, secondaryWeight, setOutcome, store) ==
  LET apexName == canary.apexName
      splits   ==
        (IF primaryWeight > Epsilon
         THEN << ServiceSplit(primaryWeight, apexName, "primary") >> ELSE << >>)
        \o
        (IF secondaryWeight > Epsilon
         THEN << ServiceSplit(secondaryWeight, apexName, "canary") >> ELSE << >>)
      splitter == [Kind |-> ServiceSplitter, Name |-> apexName, Splits |-> splits]
      w        == ConfigEntriesSet(splitter, setOutcome, store)
  IN  [ err   |-> IF w.failed THEN ErrSetSplitter(canary) ELSE Nil,
        store |-> w.store,
        calls |-> IF w.failed THEN << w.call, w.call >> ELSE << w.call >> ]

updateSplitter(canary, primaryWeight, secondaryWeight, setOutcome, store) ==
  LET apexName == canary.apexName
      splits   ==
        (IF primaryWeight > Epsilon
         THEN << ServiceSplit(primaryWeight, apexName, "primary") >> ELSE << >>)
        \o
        (IF secondaryWeight > Epsilon
         THEN << ServiceSplit(secondaryWeight, apexName, "canary") >> ELSE << >>)
      splitter == [Kind |-> ServiceSplitter, Name |-> apexName, Splits |-> splits]
      w        == ConfigEntriesSet(splitter, setOutcome, store)
  IN  [ err   |-> IF w.failed THEN ErrSetSplitter(canary) ELSE Nil,
        store |-> w.store,
        calls |-> << w.call >> ]

\* the filter of a subset written without its negation
Filter_NegationDropped(op, primaryName) ==
  [selector |-> "Service.ID", op |-> "matches", prefix |-> primaryName, rest |-> "-.+"]

Filter(op, primaryName) ==
  [selector |-> "Service.ID", op |-> op, prefix |-> primaryName, rest |-> "-.+"]

ServiceResolverFailover(service, subset, dcs) ==
  [Service |-> service, ServiceSubset |-> subset, Datacenters |-> dcs]

\* a slip of the slice bounds: dcs[:len(dcs)-1], which drops the last datacenter
Rest_DropLast(dcs) == SubSeq(dcs, 1, Len(dcs) - 1)

\* dcs[1:]
Rest(dcs) == SubSeq(dcs, 2, Len(dcs))

\* reconcileResolver that returns the discovery error instead of going on
reconcileResolver_AbortsOnDiscoveryError(canary, discovery, setOutcome, store) ==
  LET apexName    == canary.apexName
      primaryName == canary.primaryName
      d           == CatalogDatacenters(discovery)
      dcs         == IF Len(d.dcs) >= 1 THEN Rest(d.dcs) ELSE d.dcs
      failover    ==
        IF Len(dcs) > 0
        THEN [ s \in {"primary", "canary"} |-> ServiceResolverFailover(apexName, s, dcs) ]
        ELSE [ s \in {} |-> s ]
      resolver    ==
        [ Kind          |-> ServiceResolver,
          Name          |-> apexName,
          DefaultSubset |-> "primary",
          Subsets       |-> [ primary |-> Filter("matches", primaryName),
                              canary  |-> Filter("not matches", primaryName) ],
          Failover      |-> failover ]
      w           == ConfigEntriesSet(resolver, setOutcome, store)
  IN  IF d.failed
      THEN [ err |-> ErrResolverFailure(canary), store |-> store, calls |-> << d.call >> ]
      ELSE [ err   |-> IF w.failed THEN ErrResolverFailure(canary)
                       ELSE IF ~w.result THEN ErrResolverNotCreated(canary)
                       ELSE Nil,
             store |-> w.store,
             calls |-> << d.call, w.call >> ]

\* reconcileResolver that keeps the stored failover entries when the discovery
\* leaves no remote datacenter (a merge instead of a replacement)
reconcileResolver_KeepsFailover(canary, discovery, setOutcome, store) ==
  LET apexName    == canary.apexName
      primaryName == canary.primaryName
      d           == CatalogDatacenters(discovery)
      dcs0        == IF d.failed THEN << >> ELSE d.dcs
      dcs         == IF Len(dcs0) >= 1 THEN Rest(dcs0) ELSE dcs0
      old         == store[<<ServiceResolver, apexName>>]
      failover    ==
        IF Len(dcs) > 0
        THEN [ s \in {"primary", "canary"} |-> ServiceResolverFailover(apexName, s, dcs) ]
        ELSE IF old # NoEntry THEN old.Failover
        ELSE [ s \in {} |-> s ]
      resolver    ==
        [ Kind          |-> ServiceResolver,
          Name          |-> apexName,
          DefaultSubset |-> "primary",
          Subsets       |-> [ primary |-> Filter("matches", primaryName),
                              canary  |-> Filter("not matches", primaryName) ],
          Failover      |-> failover ]
      w           == ConfigEntriesSet(resolver, setOutcome, store)
  IN  [ err   |-> IF w.failed THEN ErrResolverFailure(canary)
                  ELSE IF ~w.result THEN ErrResolverNotCreated(canary)
                  ELSE Nil,
        store |-> w.store,
        calls |-> << d.call, w.call >> ]

reconcileResolver(canary, discovery, setOutcome, store) ==
  LET apexName    == canary.apexName
      primaryName == canary.primaryName
      d           == CatalogDatacenters(discovery)
      dcs0        == IF d.failed THEN << >> ELSE d.dcs
      dcs         == IF Len(dcs0) >= 1 THEN Rest(dcs0) ELSE dcs0
      failover    ==
        IF Len(dcs) > 0
        THEN [ s \in {"primary", "canary"} |-> ServiceResolverFailover(apexName, s, dcs) ]
        ELSE [ s \in {} |-> s ]
      resolver    ==
        [ Kind          |-> ServiceResolver,
          Name          |-> apexName,
          DefaultSubset |-> "primary",
          Subsets       |-> [ primary |-> Filter("matches", primaryName),
                              canary  |-> Filter("not matches", primaryName) ],
          Failover      |-> failover ]
      w           == ConfigEntriesSet(resolver, setOutcome, store)
  IN  [ err   |-> IF w.failed THEN ErrResolverFailure(canary)
                  ELSE IF ~w.result THEN ErrResolverNotCreated(canary)
                  ELSE Nil,
        store |-> w.store,
        calls |-> << d.call, w.call >> ]

\* reconcileSplitter that returns the read error instead of creating the split
reconcileSplitter_NoBootstrap(canary, getOutcome, setOutcome, store) ==
  LET apexName == canary.apexName
      g        == ConfigEntriesGet(ServiceSplitter, apexName, getOutcome, store)
  IN  [ err   |-> IF g.failed THEN ErrSplitterNotFound(canary) ELSE Nil,
        store |-> store,
        calls |-> << g.call >> ]

reconcileSplitter(canary, getOutcome, setOutcome, store) ==
  LET apexName == canary.apexName
      g        == ConfigEntriesGet(ServiceSplitter, apexName, getOutcome, store)
  IN  IF g.failed
      THEN LET u == updateSplitter(canary, ToFloat32(100), ToFloat32(0), setOutcome, store)
           IN  [ err |-> u.err, store |-> u.store, calls |-> << g.call >> \o u.calls ]
      ELSE [ err |-> Nil, store |-> store, calls |-> << g.call >> ]

\* Reconcile without the early return on the resolver error
reconcile_NoFailFast(rec, outcome, store) ==
  IF rec.pc = "resolver"
  THEN LET r == reconcileResolver(rec.canary, rec.outcomes.discovery, outcome, store)
       IN  [ store |-> r.store,
             rec   |-> [rec EXCEPT !.pc = "read",
                                   !.outcomes.resolverSet = outcome,
                                   !.hadFailover = HasFailover(store[<<ServiceResolver, rec.canary.apexName>>]),
                                   !.err = r.err,
                                   !.calls = r.calls] ]
  ELSE IF rec.pc = "read" /\ outcome = "error"
  THEN LET g == ConfigEntriesGet(ServiceSplitter, rec.canary.apexName, outcome, store)
       IN  [ store |-> store,
             rec   |-> [rec EXCEPT !.pc = "write",
                                   !.outcomes.splitterGet = outcome,
                                   !.calls = rec.calls \o << g.call >>] ]
  ELSE IF rec.pc = "read"
  THEN LET s == reconcileSplitter(rec.canary, outcome, NotCalled, store)
       IN  [ store |-> s.store,
             rec   |-> [rec EXCEPT !.pc = "return",
                                   !.outcomes.splitterGet = outcome,
                                   !.err = IF s.err # Nil THEN s.err ELSE rec.err,
                                   !.calls = rec.calls \o s.calls] ]
  ELSE LET s == reconcileSplitter(rec.canary, rec.outcomes.splitterGet, outcome, store)
       IN  [ store |-> s.store,
             rec   |-> [rec EXCEPT !.pc = "return",
                                   !.outcomes.splitterSet = outcome,
                                   !.err = IF s.err # Nil THEN s.err ELSE rec.err,
                                   !.calls = SubSeq(rec.calls, 1, Len(rec.calls) - 1) \o s.calls] ]

\* Reconcile from its position rec.pc up to the answer of the backend call it
\* waits for there, given the answer `outcome` and the store at that time.
\* rec.pc is "resolver" (the discovery has answered, the resolver write is
\* sent), "read" (the resolver is written, the read of the split is sent) or
\* "write" (the read has failed, the write of the default split is sent); the
\* result has the position "return" when Reconcile returns.  The call log of
\* reconcileSplitter starts with the read, which the log already holds at the
\* position "write".
reconcile(rec, outcome, store) ==
  IF rec.pc = "resolver"
  THEN LET r == reconcileResolver(rec.canary, rec.outcomes.discovery, outcome, store)
       IN  [ store |-> r.store,
             rec   |-> [rec EXCEPT !.pc = IF r.err # Nil THEN "return" ELSE "read",
                                   !.outcomes.resolverSet = outcome,
                                   !.hadFailover = HasFailover(store[<<ServiceResolver, rec.canary.apexName>>]),
                                   !.err = r.err,
                                   !.calls = r.calls] ]
  ELSE IF rec.pc = "read" /\ outcome = "error"
  THEN LET g == ConfigEntriesGet(ServiceSplitter, rec.canary.apexName, outcome, store)
       IN  [ store |-> store,
             rec   |-> [rec EXCEPT !.pc = "write",
                                   !.outcomes.splitterGet = outcome,
                                   !.calls = rec.calls \o << g.call >>] ]
  ELSE IF rec.pc = "read"
  THEN LET s == reconcileSplitter(rec.canary, outcome, NotCalled, store)
       IN  [ store |-> s.store,
             rec   |-> [rec EXCEPT !.pc = "return",
                                   !.outcomes.splitterGet = outcome,
                                   !.err = s.err,
                                   !.calls = rec.calls \o s.calls] ]
  ELSE LET s == reconcileSplitter(rec.canary, rec.outcomes.splitterGet, outcome, store)
       IN  [ store |-> s.store,
             rec   |-> [rec EXCEPT !.pc = "return",
                                   !.outcomes.splitterSet = outcome,
                                   !.err = s.err,
                                   !.calls = SubSeq(rec.calls, 1, Len(rec.calls) - 1) \o s.calls] ]

\* the loop of GetRoutes over readSplitter.Splits, from entry i on
RECURSIVE scanSplits(_, _, _)
scanSplits(splits, i, acc) ==
  IF i > Len(splits) THEN acc
  ELSE scanSplits(splits, i + 1,
         [ primaryWeight |-> IF splits[i].ServiceSubset = "primary"
                             THEN ToInt(splits[i].Weight) ELSE acc.primaryWeight,
           canaryWeight  |-> IF splits[i].ServiceSubset = "canary"
                             THEN ToInt(splits[i].Weight) ELSE acc.canaryWeight ])

\* GetRoutes without the check that rejects two zero weights
getRoutes_NoZeroCheck(canary, getOutcome, store) ==
  LET apexName == canary.apexName
      g        == ConfigEntriesGet(ServiceSplitter, apexName, getOutcome, store)
      zero     == [primaryWeight |-> 0, canaryWeight |-> 0]
      w        == IF g.ok THEN scanSplits(g.entry.Splits, 1, zero) ELSE zero
  IN  [ primaryWeight |-> w.primaryWeight,
        canaryWeight  |-> w.canaryWeight,
        mirrored      |-> FALSE,
        err   |-> IF g.failed THEN ErrSplitterNotFound(canary)
                  ELSE IF ~g.ok THEN ErrBadSplitter(canary)
                  ELSE Nil,
        store |-> store,
        calls |-> << g.call >> ]

\* GetRoutes that creates the default split when the read fails, as
\* reconcileSplitter does
getRoutes_CreatesOnMiss(canary, getOutcome, store) ==
  LET apexName == canary.apexName
      g        == ConfigEntriesGet(ServiceSplitter, apexName, getOutcome, store)
      u        == updateSplitter(canary, ToFloat32(100), ToFloat32(0), "written", store)
      zero     == [primaryWeight |-> 0, canaryWeight |-> 0]
      w        == IF g.ok THEN scanSplits(g.entry.Splits, 1, zero) ELSE zero
  IN  [ primaryWeight |-> w.primaryWeight,
        canaryWeight  |-> w.canaryWeight,
        mirrored      |-> FALSE,
        err   |-> IF g.failed THEN ErrSplitterNotFound(canary)
                  ELSE IF ~g.ok THEN ErrBadSplitter(canary)
                  ELSE IF w.primaryWeight = 0 /\ w.canaryWeight = 0 THEN ErrNoRoutes(canary)
                  ELSE Nil,
        store |-> IF g.failed THEN u.store ELSE store,
        calls |-> IF g.failed THEN << g.call >> \o u.calls ELSE << g.call >> ]

getRoutes(canary, getOutcome, store) ==
  LET apexName == canary.apexName
      g        == ConfigEntriesGet(ServiceSplitter, apexName, getOutcome, store)
      zero     == [primaryWeight |-> 0, canaryWeight |-> 0]
      w        == IF g.ok THEN scanSplits(g.entry.Splits, 1, zero) ELSE zero
  IN  [ primaryWeight |-> w.primaryWeight,
        canaryWeight  |-> w.canaryWeight,
        mirrored      |-> FALSE,
        err   |-> IF g.failed THEN ErrSplitterNotFound(canary)
                  ELSE IF ~g.ok THEN ErrBadSplitter(canary)
                  ELSE IF w.primaryWeight = 0 /\ w.canaryWeight = 0 THEN ErrNoRoutes(canary)
                  ELSE Nil,
        store |-> store,
        calls |-> << g.call >> ]

\* SetRoutes that refuses a mirrored route, which the backend cannot express
setRoutes_RejectsMirror(canary, primaryWeight, canaryWeight, mirrored, setOutcome, store) ==
  IF mirrored
  THEN [ err |-> Errorf("mirroring is not supported", canary, FALSE), store |-> store, calls |-> << >> ]
  ELSE updateSplitter(canary, ToFloat32(primaryWeight), ToFloat32(canaryWeight), setOutcome, store)

setRoutes(canary, primaryWeight, canaryWeight, mirrored, setOutcome, store) ==
  updateSplitter(canary, ToFloat32(primaryWeight), ToFloat32(canaryWeight), setOutcome, store)

----------------------------------------------------------------------------
(* The state machine *)

\* split lists an external writer may have stored under the apex name
ExternalSplits(apexName) ==
  { << >>,
    << ServiceSplit(0, apexName, "primary") >>,
    << ServiceSplit(Scale \div 2, apexName, "primary") >>,
    << ServiceSplit(100 * Scale, apexName, "canary") >>,
    << ServiceSplit(100 * Scale, apexName, "v2") >>,
    << ServiceSplit(50 * Scale, apexName, "primary"), ServiceSplit(50 * Scale, apexName, "canary") >>,
    << ServiceSplit(30 * Scale, apexName, "canary"), ServiceSplit(70 * Scale, apexName, "primary") >>,
    << ServiceSplit(60 * Scale, apexName, "primary"), ServiceSplit(40 * Scale, apexName, "v2") >> }

InitialEntries(kind, name) ==
  IF kind = ServiceSplitter
  THEN {NoEntry} \cup { [Kind |-> ServiceSplitter, Name |-> name, Splits |-> s] : s \in ExternalSplits(name) }
  ELSE {NoEntry}

NoCall == [op |-> "none"]

\* no call is in progress
Idle == [rec |-> [pc |-> "idle"], set |-> [pc |-> "idle"], overlapped |-> FALSE]

Init ==
  /\ entries \in { e \in [Kinds \X ApexNames -> UNION { InitialEntries(k[1], k[2]) : k \in Kinds \X ApexNames }] :
                     \A k \in Kinds \X ApexNames : e[k] \in InitialEntries(k[1], k[2]) }
  /\ last = NoCall
  /\ inflight = Idle
  /\ healthy = FALSE

\* the answers the backend can give: any while it may fail; once it has
\* stopped failing the discovery returns a list, a write is applied, and a
\* read fails for an absent entry only
DatacentersNow(discoveries) == { d \in discoveries : healthy => ~d.failed }
SetNow == IF healthy THEN {"written"} ELSE SetOutcomes
GetNow(entry) ==
  IF healthy THEN (IF entry = NoEntry THEN {"error"} ELSE {"found"}) ELSE GetOutcomes(entry)

\* what a Reconcile that returns leaves in `last`
Returned(rec) ==
  [ op |-> "Reconcile", canary |-> rec.canary, outcomes |-> rec.outcomes,
    ret |-> [err |-> rec.err], calls |-> rec.calls ]

\* Reconcile is called for one of the targets and its first backend call,
\* Catalog().Datacenters(), answers
ReconcileStart(targets, discoveries) ==
  /\ inflight.rec.pc = "idle"
  /\ \E canary \in targets, discovery \in DatacentersNow(discoveries) :
       inflight' = [inflight EXCEPT !.rec =
         [ pc |-> "resolver", canary |-> canary,
           outcomes |-> [discovery |-> discovery, resolverSet |-> NotCalled,
                         splitterGet |-> NotCalled, splitterSet |-> NotCalled],
           hadFailover |-> FALSE, err |-> Nil,
           calls |-> << CatalogDatacenters(discovery).call >> ]]
  /\ UNCHANGED <<entries, last, healthy>>

\* the backend call that the Reconcile waits for answers, and Reconcile goes
\* on to its next backend call or returns
ReconcileStep(outcome) ==
  LET r == reconcile(inflight.rec, outcome, entries)
  IN  /\ entries' = r.store
      /\ IF r.rec.pc = "return"
         THEN /\ last' = Returned(r.rec)
              /\ inflight' = [inflight EXCEPT !.rec = [pc |-> "idle"]]
         ELSE /\ inflight' = [inflight EXCEPT !.rec = r.rec]
              /\ UNCHANGED last
      /\ UNCHANGED healthy

ReconcileDatacenters == ReconcileStart(Targets, Discoveries)

\* ConfigEntries().Set of the resolver answers
ReconcileResolverSet ==
  /\ inflight.rec.pc = "resolver"
  /\ \E resolverSet \in SetNow : ReconcileStep(resolverSet)

\* ConfigEntries().Get of the split answers
ReconcileSplitterGet ==
  /\ inflight.rec.pc = "read"
  /\ \E splitterGet \in GetNow(entries[<<ServiceSplitter, inflight.rec.canary.apexName>>]) :
       ReconcileStep(splitterGet)

\* ConfigEntries().Set of the default split answers
ReconcileSplitterSet ==
  /\ inflight.rec.pc = "write"
  /\ \E splitterSet \in SetNow : ReconcileStep(splitterSet)

\* Reconcile: its backend calls one after the other; the calls of other
\* callers take effect between them
Reconcile ==
  ReconcileDatacenters \/ ReconcileResolverSet \/ ReconcileSplitterGet \/ ReconcileSplitterSet

GetRoutes ==
  \E canary \in Targets :
    \E splitterGet \in GetOutcomes(entries[<<ServiceSplitter, canary.apexName>>]) :
      LET r == getRoutes(canary, splitterGet, entries)
      IN  /\ entries' = r.store
          /\ last' = [ op |-> "GetRoutes", canary |-> canary,
                       outcomes |-> [splitterGet |-> splitterGet],
                       ret |-> [primaryWeight |-> r.primaryWeight, canaryWeight |-> r.canaryWeight,
                                mirrored |-> r.mirrored, err |-> r.err],
                       calls |-> r.calls ]
          /\ UNCHANGED <<inflight, healthy>>

SetRoutes ==
  \E canary \in Targets, primaryWeight \in Weights, canaryWeight \in Weights,
     mirrored \in BOOLEAN, splitterSet \in SetOutcomes :
      LET r == setRoutes(canary, primaryWeight, canaryWeight, mirrored, splitterSet, entries)
      IN  /\ entries' = r.store
          /\ last' = [ op |-> "SetRoutes", canary |-> canary,
                       args |-> [primaryWeight |-> primaryWeight, canaryWeight |-> canaryWeight,
                                 mirrored |-> mirrored],
                       outcomes |-> [splitterSet |-> splitterSet],
                       ret |-> [err |-> r.err], calls |-> r.calls ]
          /\ UNCHANGED <<inflight, healthy>>

Next == Reconcile \/ GetRoutes \/ SetRoutes

Spec == Init /\ [][Next]_vars

----------------------------------------------------------------------------
(* Observations used by the properties *)

splitterOf(store, canary) == store[<<ServiceSplitter, canary.apexName>>]
resolverOf(store, canary) == store[<<ServiceResolver, canary.apexName>>]

\* a backend call of the running Reconcile, after the discovery, is answered
\* in this step
ReconcileActs == inflight.rec.pc # "idle" /\ inflight'.rec # inflight.rec
\* the running Reconcile returns in this step
ReconcileReturns == inflight.rec.pc # "idle" /\ inflight'.rec.pc = "idle"
\* this step is a GetRoutes, a SetRoutes
GetRoutesReturns == last'.op = "GetRoutes" /\ inflight' = inflight
SetRoutesReturns == last'.op = "SetRoutes" /\ inflight' = inflight

\* the Reconcile after its step: what it has seen so far, or what it returned
After ==
  IF inflight'.rec.pc = "idle"
  THEN [ canary |-> last'.canary, outcomes |-> last'.outcomes,
         err |-> last'.ret.err, calls |-> last'.calls ]
  ELSE [ canary |-> inflight'.rec.canary, outcomes |-> inflight'.rec.outcomes,
         err |-> inflight'.rec.err, calls |-> inflight'.rec.calls ]

\* the answer of the backend call made at a position
OutcomeAt(pc, outcomes) ==
  IF pc = "resolver" THEN outcomes.resolverSet
  ELSE IF pc = "read" THEN outcomes.splitterGet
  ELSE outcomes.splitterSet

\* the calls of a call log that go to the splitter entry, and the writes among them
SplitterCalls(calls) == { i \in DOMAIN calls : calls[i].kind = ServiceSplitter }
SplitterWrites(calls) ==
  { i \in SplitterCalls(calls) : calls[i].api = "ConfigEntries.Set" }
Writes(calls) == { i \in DOMAIN calls : calls[i].api = "ConfigEntries.Set" }

\* the weights stored for a subset in a split list
WeightsOf(splits, subset) ==
  { splits[i].Weight : i \in { j \in DOMAIN splits : splits[j].ServiceSubset = subset } }

\* the split list that holds exactly the nonzero ones of the weights p and c
ExpectedSplits(apexName, p, c) ==
  (IF p > 0 THEN << [Weight |-> p * Scale, Service |-> apexName, ServiceSubset |-> "primary"] >>
   ELSE << >>)
  \o
  (IF c > 0 THEN << [Weight |-> c * Scale, Service |-> apexName, ServiceSubset |-> "canary"] >>
   ELSE << >>)

----------------------------------------------------------------------------
(* C1 *)

\* C1: when a split is stored for the apex name, no backend call of a
\* Reconcile changes the stored split, whatever the calls return.
C1_ReconcileLeavesSplit ==
  [][ (/\ ReconcileActs
       /\ splitterOf(entries, inflight.rec.canary) # NoEntry)
      => splitterOf(entries', inflight.rec.canary) = splitterOf(entries, inflight.rec.canary) ]_vars

----------------------------------------------------------------------------
(* C2 *)

\* C2: a Reconcile that directly follows a successful Reconcile of the same
\* target, with the same discovery result, issues no splitter write and
\* none of its backend calls changes the store.
C2_ReconcileIdempotent ==
  [][ (/\ last.op = "Reconcile"
       /\ last.ret.err = Nil
       /\ ReconcileActs
       /\ inflight.rec.canary = last.canary
       /\ inflight.rec.outcomes.discovery = last.outcomes.discovery)
      => (/\ SplitterWrites(After.calls) = {}
          /\ entries' = entries) ]_vars

----------------------------------------------------------------------------
(* C3 *)

\* C3: a GetRoutes that directly follows a successful SetRoutes(p, c, false)
\* with p or c nonzero, while no Reconcile is running, and that reads the
\* stored entry, returns (p, c, false) and no error.
C3_RoundTrip ==
  [][ (/\ last.op = "SetRoutes"
       /\ last.ret.err = Nil
       /\ ~last.args.mirrored
       /\ (last.args.primaryWeight # 0 \/ last.args.canaryWeight # 0)
       /\ inflight.rec.pc = "idle"
       /\ GetRoutesReturns
       /\ last'.canary = last.canary
       /\ last'.outcomes.splitterGet = "found")
      => last'.ret = [ primaryWeight |-> last.args.primaryWeight,
                       canaryWeight  |-> last.args.canaryWeight,
                       mirrored      |-> FALSE,
                       err           |-> Nil ] ]_vars

----------------------------------------------------------------------------
(* C4 *)

\* C4: a split written by SetRoutes or by Reconcile has a primary or a canary
\* entry of nonzero weight, so that GetRoutes does not report it as invalid.
C4_WrittenSplitHasRoute ==
  [][ (/\ SetRoutesReturns \/ ReconcileReturns
       /\ last'.outcomes.splitterSet = "written")
      => LET splits == splitterOf(entries', last'.canary).Splits
         IN  /\ \E w \in WeightsOf(splits, "primary") \cup WeightsOf(splits, "canary") : w > 0
             /\ getRoutes(last'.canary, "found", entries').err # ErrNoRoutes(last'.canary) ]_vars

----------------------------------------------------------------------------
(* C5 *)

\* C5 as stated: GetRoutes on a stored split whose primary and canary entries
\* are missing or of weight zero returns the invalid-configuration error, which
\* differs from the not-found error; when one subset is missing and the other
\* has a nonzero weight, the missing one is read as 0 and no error is returned.
C5_CorruptionDetection_Original ==
  [][ (GetRoutesReturns /\ last'.outcomes.splitterGet = "found")
      => LET splits == splitterOf(entries, last'.canary).Splits
             P == WeightsOf(splits, "primary")
             C == WeightsOf(splits, "canary")
         IN  /\ (P \subseteq {0} /\ C \subseteq {0})
                  => /\ last'.ret.err = ErrNoRoutes(last'.canary)
                     /\ last'.ret.err # ErrSplitterNotFound(last'.canary)
             /\ (P = {} /\ C # {} /\ 0 \notin C)
                  => (last'.ret.primaryWeight = 0 /\ last'.ret.err = Nil)
             /\ (C = {} /\ P # {} /\ 0 \notin P)
                  => (last'.ret.canaryWeight = 0 /\ last'.ret.err = Nil) ]_vars

\* C5 (amended): as above, but the missing subset is read as 0 without error
\* when the other subset has a weight of at least 1; weights are truncated to
\* whole numbers, so a split whose weights are all below 1 is reported invalid.
C5_CorruptionDetection ==
  [][ (GetRoutesReturns /\ last'.outcomes.splitterGet = "found")
      => LET splits == splitterOf(entries, last'.canary).Splits
             P == WeightsOf(splits, "primary")
             C == WeightsOf(splits, "canary")
         IN  /\ (\A w \in P \cup C : 0 <= w /\ w < Scale)
                  => /\ last'.ret.err = ErrNoRoutes(last'.canary)
                     /\ last'.ret.err # ErrSplitterNotFound(last'.canary)
             /\ (P = {} /\ C # {} /\ \A w \in C : w >= Scale)
                  => (last'.ret.primaryWeight = 0 /\ last'.ret.err = Nil)
             /\ (C = {} /\ P # {} /\ \A w \in P : w >= Scale)
                  => (last'.ret.canaryWeight = 0 /\ last'.ret.err = Nil) ]_vars

\* GetRoutes has read a stored split without primary and canary entry and
\* has returned the invalid-configuration error
C5_Witness ==
  /\ last.op = "GetRoutes"
  /\ last.outcomes.splitterGet = "found"
  /\ WeightsOf(splitterOf(entries, last.canary).Splits, "primary") = {}
  /\ WeightsOf(splitterOf(entries, last.canary).Splits, "canary") = {}
  /\ last.ret.err = ErrNoRoutes(last.canary)

----------------------------------------------------------------------------
(* C6 *)

\* C6: GetRoutes writes nothing: it makes no Set call and leaves the store
\* unchanged; on an absent split it returns the not-found error.
C6_GetRoutesReadsOnly ==
  [][ GetRoutesReturns
      => (/\ entries' = entries
          /\ Writes(last'.calls) = {}
          /\ splitterOf(entries, last'.canary) = NoEntry
               => (/\ last'.ret.err = ErrSplitterNotFound(last'.canary)
                   /\ splitterOf(entries', last'.canary) = NoEntry)) ]_vars

\* GetRoutes has returned the not-found error for an absent split
C6_Witness ==
  /\ last.op = "GetRoutes"
  /\ splitterOf(entries, last.canary) = NoEntry
  /\ last.ret.err = ErrSplitterNotFound(last.canary)

----------------------------------------------------------------------------
(* C7 *)

\* C7: in the call log of one Reconcile every splitter call comes after a
\* resolver write that succeeded; when the resolver write fails or is
\* reported as not written, Reconcile returns that error and makes no
\* splitter call.
C7_ResolverBeforeSplitter ==
  last.op = "Reconcile"
  => /\ \A i \in SplitterCalls(last.calls) :
          \E j \in 1..(i - 1) :
            /\ last.calls[j].api = "ConfigEntries.Set"
            /\ last.calls[j].kind = ServiceResolver
            /\ last.calls[j].outcome = "written"
     /\ last.outcomes.resolverSet = "error"
          => (last.ret.err = ErrResolverFailure(last.canary) /\ SplitterCalls(last.calls) = {})
     /\ last.outcomes.resolverSet = "notwritten"
          => (last.ret.err = ErrResolverNotCreated(last.canary) /\ SplitterCalls(last.calls) = {})

\* a Reconcile whose resolver write was reported as not written has returned
\* the error after the discovery and the resolver write
C7_Witness ==
  /\ last.op = "Reconcile"
  /\ last.outcomes.resolverSet = "notwritten"
  /\ last.ret.err = ErrResolverNotCreated(last.canary)
  /\ Len(last.calls) = 2

----------------------------------------------------------------------------
(* C8 *)

\* C8: a Reconcile that returns no error on a target without split leaves the
\* split list <<primary: 100>>, which GetRoutes reads as (100, 0, false).
C8_Bootstrap ==
  [][ (/\ ReconcileReturns
       /\ last'.ret.err = Nil
       /\ splitterOf(entries, last'.canary) = NoEntry)
      => (/\ splitterOf(entries', last'.canary) # NoEntry
          /\ splitterOf(entries', last'.canary).Splits
               = ExpectedSplits(last'.canary.apexName, 100, 0)
          /\ LET g == getRoutes(last'.canary, "found", entries')
             IN  <<g.primaryWeight, g.canaryWeight, g.mirrored, g.err>> = <<100, 0, FALSE, Nil>>) ]_vars

----------------------------------------------------------------------------
(* C9 *)

\* C9: after a SetRoutes(p, c, _) that returns no error the stored split list
\* is exactly [primary: p if p > 0] followed by [canary: c if c > 0], whatever
\* was stored before.
C9_FullReplacement ==
  [][ (/\ SetRoutesReturns
       /\ last'.ret.err = Nil)
      => (/\ splitterOf(entries', last'.canary) # NoEntry
          /\ splitterOf(entries', last'.canary).Splits
               = ExpectedSplits(last'.canary.apexName,
                                last'.args.primaryWeight, last'.args.canaryWeight)) ]_vars

----------------------------------------------------------------------------
(* C10 *)

\* C10: the resolver written by Reconcile has, for a discovery list of two or
\* more datacenters, a failover entry for primary and for canary, both for
\* the apex name and the discovery list without its first element; for a
\* failed discovery or a list of 0 or 1 datacenters it has no failover entry.
C10_FailoverPopulation ==
  [][ (/\ inflight.rec.pc = "resolver"
       /\ ReconcileActs
       /\ After.outcomes.resolverSet = "written")
      => LET d        == After.outcomes.discovery
             found    == IF d.failed THEN << >> ELSE d.dcs
             remote   == [k \in 1..(Len(found) - 1) |-> found[k + 1]]
             resolver == resolverOf(entries', After.canary)
         IN  IF Len(found) >= 2
             THEN /\ DOMAIN resolver.Failover = {"primary", "canary"}
                  /\ \A s \in {"primary", "canary"} :
                       /\ resolver.Failover[s].Service = After.canary.apexName
                       /\ resolver.Failover[s].Datacenters = remote
             ELSE DOMAIN resolver.Failover = {} ]_vars

\* a Reconcile has written a resolver for a discovery of 3 datacenters, with
\* a failover list of the last 2
C10_Witness ==
  /\ inflight.rec.pc = "read"
  /\ inflight.rec.outcomes.resolverSet = "written"
  /\ ~inflight.rec.outcomes.discovery.failed
  /\ Len(inflight.rec.outcomes.discovery.dcs) = 3
  /\ DOMAIN resolverOf(entries, inflight.rec.canary).Failover = {"primary", "canary"}
  /\ Len(resolverOf(entries, inflight.rec.canary).Failover["canary"].Datacenters) = 2

----------------------------------------------------------------------------
(* The metrics observer (package observers, connect.go) *)

\* time.Millisecond, in nanoseconds, the unit of time.Duration
Millisecond == 1000000

\* the query catalog of the observer: metric kind -> template
connectQueries ==
  [ k \in {"request-success-rate", "request-duration"} |->
      [ text   |-> IF k = "request-success-rate"
                   THEN "sum(rate(envoy_cluster_upstream_rq{!~5.*})) / sum(rate(envoy_cluster_upstream_rq)) * 100"
                   ELSE "histogram_quantile(0.99, sum(rate(envoy_cluster_upstream_rq_time_bucket)) by (le))",
        fields |-> {"target", "interval"} ] ]

\* the metric template models given to the observer
Models == { [target |-> "app", namespace |-> "test", interval |-> i] : i \in {"30s", "1m"} }

\* outcomes of RenderQuery
RenderOutcomes == {"rendered", "error"}

\* the raw float64 results of a query, in 1/Scale units
RawValues == {-1500, 0, 1, 999, 1000, 250000, 250700, 2000000}

\* outcomes of client.RunQuery: an error, or a value
RunOutcomes == { [failed |-> TRUE, value |-> 0] } \cup { [failed |-> FALSE, value |-> v] : v \in RawValues }

\* RenderQuery: the template with the model's values for its fields, or an error
RenderQuery(template, model, outcome) ==
  [ query  |-> IF outcome = "rendered"
               THEN [text |-> template.text, target |-> model.target, interval |-> model.interval]
               ELSE [text |-> ""],
    failed |-> outcome = "error",
    err    |-> IF outcome = "error" THEN [msg |-> "template error"] ELSE Nil ]

\* client.RunQuery
RunQuery(query, outcome) ==
  [ value  |-> outcome.value,
    failed |-> outcome.failed,
    err    |-> IF outcome.failed THEN [msg |-> "query error"] ELSE Nil,
    call   |-> [api |-> "RunQuery", kind |-> query.text,
                outcome |-> IF outcome.failed THEN "error" ELSE "found"] ]

\* fmt.Errorf("...: %w", err) of the observer
WrapError(msg, err) == [msg |-> msg, wraps |-> err]

getRequestSuccessRate(model, renderOutcome, runOutcome) ==
  LET q == RenderQuery(connectQueries["request-success-rate"], model, renderOutcome)
  IN  IF q.failed
      THEN [ value |-> 0, err |-> WrapError("rendering query failed", q.err), calls |-> << >> ]
      ELSE LET v == RunQuery(q.query, runOutcome)
           IN  IF v.failed
               THEN [ value |-> 0, err |-> WrapError("running query failed", v.err),
                      calls |-> << v.call >> ]
               ELSE [ value |-> v.value, err |-> Nil, calls |-> << v.call >> ]

\* the conversion without the unit: the raw value taken as nanoseconds
toDuration_NoUnit(value) == ToInt(value)

\* time.Duration(int64(value)) * time.Millisecond
toDuration(value) == ToInt(value) * Millisecond

getRequestDuration(model, renderOutcome, runOutcome) ==
  LET q == RenderQuery(connectQueries["request-duration"], model, renderOutcome)
  IN  IF q.failed
      THEN [ value |-> 0, err |-> WrapError("rendering query failed", q.err), calls |-> << >> ]
      ELSE LET v == RunQuery(q.query, runOutcome)
           IN  IF v.failed
               THEN [ value |-> 0, err |-> WrapError("running query failed", v.err),
                      calls |-> << v.call >> ]
               ELSE [ value |-> toDuration(v.value), err |-> Nil, calls |-> << v.call >> ]

GetRequestSuccessRate ==
  \E model \in Models, renderOutcome \in RenderOutcomes :
    \E runOutcome \in IF renderOutcome = "rendered" THEN RunOutcomes ELSE {NotCalled} :
      LET r == getRequestSuccessRate(model, renderOutcome, runOutcome)
      IN  /\ last' = [ op |-> "GetRequestSuccessRate", model |-> model,
                       outcomes |-> [render |-> renderOutcome, run |-> runOutcome],
                       ret |-> [value |-> r.value, err |-> r.err], calls |-> r.calls ]
          /\ UNCHANGED <<entries, inflight, healthy>>

GetRequestDuration ==
  \E model \in Models, renderOutcome \in RenderOutcomes :
    \E runOutcome \in IF renderOutcome = "rendered" THEN RunOutcomes ELSE {NotCalled} :
      LET r == getRequestDuration(model, renderOutcome, runOutcome)
      IN  /\ last' = [ op |-> "GetRequestDuration", model |-> model,
                       outcomes |-> [render |-> renderOutcome, run |-> runOutcome],
                       ret |-> [value |-> r.value, err |-> r.err], calls |-> r.calls ]
          /\ UNCHANGED <<entries, inflight, healthy>>

NextObserver == GetRequestSuccessRate \/ GetRequestDuration

\* the observer alone
SpecObserver == Init /\ [][NextObserver]_vars

\* the router and the observer, called in any order
NextCore == Next \/ NextObserver
SpecCore == Init /\ [][NextCore]_vars

----------------------------------------------------------------------------
(* C14 *)

\* C14: a duration query that executes with the raw result v returns no
\* error and a duration of v milliseconds when v is a whole number, and
\* otherwise the whole number of milliseconds next to v toward zero.
C14_DurationInMilliseconds ==
  (/\ last.op = "GetRequestDuration"
   /\ last.outcomes.render = "rendered"
   /\ ~last.outcomes.run.failed)
  => LET raw == last.outcomes.run.value
         d   == last.ret.value
         ns  == raw * (Millisecond \div Scale)
     IN  /\ last.ret.err = Nil
         /\ raw % Scale = 0 => d = ns
         /\ d % Millisecond = 0
         /\ ns >= 0 => (0 <= ns - d /\ ns - d < Millisecond)
         /\ ns < 0  => (0 <= d - ns /\ d - ns < Millisecond)

\* a duration query with the raw result 250 has returned 250 ms
C14_Witness ==
  /\ last.op = "GetRequestDuration"
  /\ last.outcomes.render = "rendered"
  /\ ~last.outcomes.run.failed
  /\ last.outcomes.run.value = 250 * Scale
  /\ last.ret.value = 250 * Millisecond
  /\ last.ret.err = Nil

----------------------------------------------------------------------------
(* C15 *)

RouterOps == {"Reconcile", "GetRoutes", "SetRoutes"}
ObserverOps == {"GetRequestSuccessRate", "GetRequestDuration"}

\* the metric kind whose query an observer call runs
MetricKindOf(op) ==
  IF op = "GetRequestSuccessRate" THEN "request-success-rate" ELSE "request-duration"

\* C15: an error returned by Reconcile, GetRoutes or SetRoutes names the apex
\* name and the namespace of the target; an error returned by an observer
\* call names the metric kind of the query.
C15_ErrorsCarryContext ==
  /\ (last.op \in RouterOps /\ last.ret.err # Nil)
       => (/\ last.ret.err.apexName = last.canary.apexName
           /\ last.ret.err.namespace = last.canary.Namespace)
  /\ (last.op \in ObserverOps /\ last.ret.err # Nil)
       => (/\ "metricKind" \in DOMAIN last.ret.err
           /\ last.ret.err.metricKind = MetricKindOf(last.op))

----------------------------------------------------------------------------
(* C16 *)

\* a backend call whose failure ends the operation: every failed call but the
\* discovery and the splitter read of Reconcile, which are handled
FatalCall(op, call) ==
  /\ call.api # "Catalog.Datacenters"
  /\ ~(op = "Reconcile" /\ call.api = "ConfigEntries.Get")
  /\ \/ call.outcome = "error"
     \/ (call.kind = ServiceResolver /\ call.outcome = "notwritten")

\* C16: in the call log of one operation no backend call occurs twice, a
\* fatal failure is the last call and the operation returns an error, and an
\* observer call whose rendering fails runs no query.
C16_NoRetries ==
  last.op # "none"
  => /\ \A i, j \in DOMAIN last.calls :
          i # j => <<last.calls[i].api, last.calls[i].kind>> # <<last.calls[j].api, last.calls[j].kind>>
     /\ \A i \in DOMAIN last.calls :
          FatalCall(last.op, last.calls[i]) => (i = Len(last.calls) /\ last.ret.err # Nil)
     /\ (last.op \in ObserverOps /\ last.outcomes.render = "error")
          => (last.calls = << >> /\ last.ret.err # Nil)

\* a Reconcile whose bootstrap write failed has returned after its four calls
C16_Witness ==
  /\ last.op = "Reconcile"
  /\ last.outcomes.splitterSet = "error"
  /\ Len(last.calls) = 4
  /\ last.ret.err = ErrSetSplitter(last.canary)

----------------------------------------------------------------------------
(* C11 *)

\* C11: at every backend call of a Reconcile whose discovery failed the store
\* and the error are those of the same Reconcile with an empty discovery
\* list; the resolver it writes has the two subsets, the default subset
\* primary and no failover entry; and when the resolver write succeeds and
\* the splitter write does not fail it returns no error.
C11_DiscoveryFailureTolerated ==
  [][ (/\ ReconcileActs
       /\ inflight.rec.outcomes.discovery.failed)
      => LET pc == inflight.rec.pc
             o  == OutcomeAt(pc, After.outcomes)
             e  == reconcile([inflight.rec EXCEPT
                                !.outcomes.discovery = [failed |-> FALSE, dcs |-> << >>]],
                             o, entries)
             resolver == resolverOf(entries', After.canary)
         IN  /\ entries' = e.store
             /\ After.err = e.rec.err
             /\ (pc = "resolver" /\ o = "written")
                  => /\ After.err = Nil
                     /\ DOMAIN resolver.Subsets = {"primary", "canary"}
                     /\ resolver.DefaultSubset = "primary"
                     /\ DOMAIN resolver.Failover = {}
             /\ (/\ ReconcileReturns
                 /\ After.outcomes.resolverSet = "written"
                 /\ After.outcomes.splitterSet # "error")
                  => After.err = Nil ]_vars

\* a Reconcile whose discovery failed has returned no error and has written
\* the resolver without failover and the default split
C11_Witness ==
  /\ last.op = "Reconcile"
  /\ last.outcomes.discovery.failed
  /\ last.outcomes.resolverSet = "written"
  /\ last.outcomes.splitterSet = "written"
  /\ last.ret.err = Nil
  /\ DOMAIN resolverOf(entries, last.canary).Failover = {}
  /\ splitterOf(entries, last.canary).Splits = ExpectedSplits(last.canary.apexName, 100, 0)

----------------------------------------------------------------------------
(* C12 *)

\* C12: SetRoutes with mirror true and with mirror false return the same
\* result and leave the same store, an error is returned only when the write
\* fails, and GetRoutes reports mirrored = false.
C12_MirrorIgnored ==
  [][ /\ SetRoutesReturns
           => \A m \in BOOLEAN :
                LET r == setRoutes(last'.canary, last'.args.primaryWeight,
                                   last'.args.canaryWeight, m,
                                   last'.outcomes.splitterSet, entries)
                IN  /\ r.store = entries'
                    /\ r.err = last'.ret.err
                    /\ last'.outcomes.splitterSet # "error" => r.err = Nil
      /\ GetRoutesReturns => ~last'.ret.mirrored ]_vars

\* a SetRoutes with mirror true has written the split of its weights
C12_Witness ==
  /\ last.op = "SetRoutes"
  /\ last.args.mirrored
  /\ last.outcomes.splitterSet = "written"
  /\ last.ret.err = Nil
  /\ splitterOf(entries, last.canary).Splits
       = ExpectedSplits(last.canary.apexName, last.args.primaryWeight, last.args.canaryWeight)

----------------------------------------------------------------------------
(* C18 *)

\* C18: the resolver that a Reconcile writes is the one it writes into an
\* empty store for the same target and discovery outcome; it has no failover
\* entry when the discovery fails or finds at most one datacenter, whatever
\* was stored, and both failover entries otherwise.
C18_ResolverReplaced ==
  [][ (/\ inflight.rec.pc = "resolver"
       /\ ReconcileActs
       /\ After.outcomes.resolverSet = "written")
      => LET d     == After.outcomes.discovery
             empty == [k \in DOMAIN entries |-> NoEntry]
             fresh == reconcileResolver(After.canary, d, "written", empty).store
             resolver == resolverOf(entries', After.canary)
         IN  /\ resolver = resolverOf(fresh, After.canary)
             /\ (d.failed \/ Len(d.dcs) <= 1) => DOMAIN resolver.Failover = {}
             /\ (~d.failed /\ Len(d.dcs) >= 2) => DOMAIN resolver.Failover = {"primary", "canary"} ]_vars

\* a Reconcile without remote datacenter has replaced a resolver that had
\* failover entries by one without
C18_Witness ==
  /\ inflight.rec.pc = "read"
  /\ inflight.rec.hadFailover
  /\ inflight.rec.outcomes.resolverSet = "written"
  /\ (inflight.rec.outcomes.discovery.failed \/ Len(inflight.rec.outcomes.discovery.dcs) <= 1)
  /\ DOMAIN resolverOf(entries, inflight.rec.canary).Failover = {}

----------------------------------------------------------------------------
(* C19 *)

\* C19: when SetRoutes, or a Reconcile that made the bootstrap write, returns
\* no error, the stored split is the one requested.
C19_SuccessMeansWritten ==
  [][ (/\ SetRoutesReturns \/ ReconcileReturns
       /\ last'.outcomes.splitterSet # NotCalled
       /\ last'.ret.err = Nil)
      => (/\ splitterOf(entries', last'.canary) # NoEntry
          /\ splitterOf(entries', last'.canary).Splits
               = IF last'.op = "SetRoutes"
                 THEN ExpectedSplits(last'.canary.apexName,
                                     last'.args.primaryWeight, last'.args.canaryWeight)
                 ELSE ExpectedSplits(last'.canary.apexName, 100, 0)) ]_vars

----------------------------------------------------------------------------
(* The subset filters of the resolver, applied to instance identifiers *)

\* names and identifiers are sequences of characters of this alphabet
Alphabet == {"a", "b", "-"}

InstanceIds == UNION { [1..n -> Alphabet] : n \in 0..MaxIdLen }

\* a target whose names are spelled out, for the evaluation of the filters
FilterTargets ==
  { [apexName |-> n, primaryName |-> n, canaryName |-> n \o <<"-", "b">>, Namespace |-> "test"] :
      n \in { <<"a">> } }

\* Service.ID matches "<prefix>-.+": the regular expression is searched for
\* anywhere in the identifier; the prefix has no metacharacter, "-" is literal
\* and ".+" is one or more characters
RegexpMatches(filter, id) ==
  LET literal == filter.prefix \o <<"-">>
  IN  /\ filter.rest = "-.+"
      /\ \E i \in 1..Len(id) :
           /\ i + Len(literal) - 1 < Len(id)
           /\ SubSeq(id, i, i + Len(literal) - 1) = literal

\* whether a subset filter selects the instance with this Service.ID
FilterSelects(filter, id) ==
  IF filter.op = "matches" THEN RegexpMatches(filter, id) ELSE ~RegexpMatches(filter, id)

InitFilter ==
  /\ entries = [k \in Kinds \X { t.apexName : t \in FilterTargets } |-> NoEntry]
  /\ last = NoCall
  /\ inflight = Idle
  /\ healthy = FALSE

\* Reconcile is called for one of the spelled-out targets; the discoveries
\* are those without remote datacenter, as the failover list has no part in
\* the filters
ReconcileFilters ==
  ReconcileStart(FilterTargets, { d \in Discoveries : Len(d.dcs) <= 1 })

\* the backend applies the stored subset filters to an instance
SelectInstance ==
  \E canary \in FilterTargets, id \in InstanceIds :
    LET resolver == resolverOf(entries, canary)
    IN  /\ resolver # NoEntry
        /\ last' = [ op |-> "SelectInstance", canary |-> canary, id |-> id,
                     selected |-> [ s \in DOMAIN resolver.Subsets |->
                                      FilterSelects(resolver.Subsets[s], id) ] ]
        /\ UNCHANGED <<entries, inflight, healthy>>

NextFilter ==
  \/ ReconcileFilters
  \/ ReconcileResolverSet
  \/ ReconcileSplitterGet
  \/ ReconcileSplitterSet
  \/ SelectInstance

SpecFilter == InitFilter /\ [][NextFilter]_vars

----------------------------------------------------------------------------
(* C13 *)

\* C13: exactly one of the primary and the canary filter written by Reconcile
\* selects an instance identifier; the primary filter selects an identifier
\* that begins with the primary name, the separator "-" and one more
\* character at least; the canary filter selects the identifiers that the
\* primary filter does not.
C13_FiltersPartition ==
  last.op = "SelectInstance"
  => LET id == last.id
         N  == last.canary.primaryName
     IN  /\ DOMAIN last.selected = {"primary", "canary"}
         /\ last.selected["primary"] # last.selected["canary"]
         /\ (/\ Len(id) > Len(N) + 1
             /\ \A k \in 1..Len(N) : id[k] = N[k]
             /\ id[Len(N) + 1] = "-")
              => last.selected["primary"]
         /\ last.selected["canary"] <=> ~last.selected["primary"]

\* the identifier a-b is selected by the primary filter of the name a and
\* not by the canary filter
C13_Witness ==
  /\ last.op = "SelectInstance"
  /\ last.canary.primaryName = <<"a">>
  /\ last.id = <<"a", "-", "b">>
  /\ last.selected["primary"]
  /\ ~last.selected["canary"]

----------------------------------------------------------------------------
(* Periodic reconciliation: the caller calls Reconcile tick after tick, one
   call after the other; at some time the backend stops failing, possibly
   while a Reconcile is waiting for one of its backend calls *)

\* the backend stops failing
Heal ==
  /\ ~healthy
  /\ healthy' = TRUE
  /\ UNCHANGED <<entries, last, inflight>>

\* the ticks: the discoveries are a failure and the lists without remote
\* datacenter, as the failover list has no part in the split
ReconcileTick ==
  \/ ReconcileStart(Targets, { d \in Discoveries : Len(d.dcs) <= 1 })
  \/ ReconcileResolverSet
  \/ ReconcileSplitterGet
  \/ ReconcileSplitterSet

NextConverge == ReconcileTick \/ Heal

\* the backend answers every call and the caller keeps calling
SpecConverge ==
  Init /\ [][NextConverge]_vars /\ WF_vars(Heal) /\ WF_vars(ReconcileTick)

----------------------------------------------------------------------------
(* C20 *)

\* the last call is a Reconcile that returned no error with the resolver and
\* the split stored, and that made no splitter write
ConvergedQuiet ==
  /\ last.op = "Reconcile"
  /\ last.ret.err = Nil
  /\ resolverOf(entries, last.canary) # NoEntry
  /\ splitterOf(entries, last.canary) # NoEntry
  /\ SplitterWrites(last.calls) = {}

\* C20: when Reconcile is called tick after tick and the backend stops
\* failing, then from some tick on every Reconcile returns no error, with the
\* resolver and the split stored, and makes no splitter write, whatever the
\* failed calls before have left.
C20_Convergence == <>[]ConvergedQuiet

\* after the backend has stopped failing a Reconcile has returned no error
\* without a splitter write, on the split that a bootstrap has created
C20_Witness ==
  /\ healthy
  /\ ConvergedQuiet
  /\ splitterOf(entries, last.canary).Splits = ExpectedSplits(last.canary.apexName, 100, 0)

----------------------------------------------------------------------------
(* Two callers without coordination: one Reconcile, whose backend calls are
   separate steps, and the SetRoutes of a second caller, whose single backend
   call is one step.  The router holds no lock across the calls of
   Reconcile. *)

\* the one Reconcile of the first caller is called
RaceReconcile == last = NoCall /\ ReconcileDatacenters

\* the SetRoutes of the second caller, before, after or at any point of the
\* Reconcile
RaceSetRoutes ==
  /\ inflight.set.pc = "idle"
  /\ \E canary \in Targets, primaryWeight \in Weights, canaryWeight \in Weights,
        mirrored \in BOOLEAN, splitterSet \in SetOutcomes :
       LET r == setRoutes(canary, primaryWeight, canaryWeight, mirrored, splitterSet, entries)
       IN  /\ entries' = r.store
           /\ inflight' = [inflight EXCEPT
                 !.set = [pc |-> "done", canary |-> canary, primaryWeight |-> primaryWeight,
                          canaryWeight |-> canaryWeight, err |-> r.err, outcome |-> splitterSet,
                          during |-> inflight.rec.pc,
                          wasAbsent |-> splitterOf(entries, canary) = NoEntry],
                 !.overlapped = inflight.rec.pc # "idle"]
  /\ UNCHANGED <<last, healthy>>

NextRace ==
  \/ RaceReconcile
  \/ ReconcileResolverSet
  \/ ReconcileSplitterGet
  \/ ReconcileSplitterSet
  \/ RaceSetRoutes

SpecRace == Init /\ [][NextRace]_vars

----------------------------------------------------------------------------
(* C17 *)

\* both calls have returned success for one target
BothSucceeded ==
  /\ last.op = "Reconcile"
  /\ inflight.rec.pc = "idle"
  /\ inflight.set.pc = "done"
  /\ last.ret.err = Nil
  /\ inflight.set.err = Nil
  /\ last.canary = inflight.set.canary

\* the stored split is the bootstrap value and not what SetRoutes asked for
UpdateLost ==
  LET canary == inflight.set.canary
      asked  == ExpectedSplits(canary.apexName, inflight.set.primaryWeight, inflight.set.canaryWeight)
      boot   == ExpectedSplits(canary.apexName, 100, 0)
  IN  /\ splitterOf(entries, canary) # NoEntry
      /\ splitterOf(entries, canary).Splits = boot
      /\ asked # boot

\* the race of the first half: SetRoutes ran on an absent split between the
\* read of the Reconcile and its bootstrap write, both writes were applied,
\* both calls returned success and the update is lost
LostUpdateByRace ==
  /\ BothSucceeded
  /\ inflight.overlapped
  /\ inflight.set.during = "write"
  /\ inflight.set.wasAbsent
  /\ last.outcomes.splitterSet = "written"
  /\ inflight.set.outcome = "written"
  /\ UpdateLost

\* C17: when the Reconcile and the SetRoutes of one target do not overlap and
\* both have returned success, the stored split is not the bootstrap value in
\* place of the (p, c) that SetRoutes asked for.
C17_SerializedNoLostUpdate ==
  (BothSucceeded /\ ~inflight.overlapped) => ~UpdateLost

====
